---- MODULE Spec2Model ----
(***************************************************************************)
(* Publish automation engine of xiaohongshu-recipe-mcp.                    *)
(*                                                                         *)
(* One tool call of handle_call_tool and the background run it starts:     *)
(* main() of the background script (position mainPc), its call of          *)
(* publish_to_xiaohongshu (src/server.py) and the publish_with_playwright  *)
(* call that one makes (src/publish_playwright.py), as a state machine     *)
(* over the program counter pc.  Answers of the                            *)
(* outside world (files on disk, the platform's routing, the DOM, the      *)
(* operator's input, download outcomes, exceptions of the browser driver)  *)
(* are drawn nondeterministically at the step that observes them.          *)
(***************************************************************************)
EXTENDS Integers, Sequences, FiniteSets, TLC

(* ---- bounds of the model ---------------------------------------------- *)
MaxTitleLen == 20      \* titles of 0..MaxTitleLen characters
MaxUrls     == 2       \* image_urls lists of 0..MaxUrls entries (whole runs)
MaxBatch    == 10      \* image_urls lists of 0..MaxBatch entries (staging alone)
MaxAttempts == 2       \* video download attempts explored per run
MaxPrompts  == 1       \* credential-file prompts explored per run

(* ---- program constants ------------------------------------------------ *)
TitleCap  == 18        \* title[:18]
ImageCap  == 9         \* image_urls[:9]
CoverCap  == 3         \* image_urls[:3]
HoldPolls == 30        \* range(30)

NoneStr    == "None"               \* a failed download_image: None
PendingStr == "pending"            \* a task gather is still waiting for
test_img   == "test_lemon.jpg"     \* the bundled placeholder image
video_file == "video.mp4"          \* temp_dir/<uuid>.mp4

title_selectors   == <<"input.c-input_inner", "input[placeholder*=title]", ".title-input input">>
content_selectors == <<"#post-textarea", ".editor-content", "[contenteditable=true]">>
tab_video_selectors == <<"div.tab >> text=upload-video">>
tab_image_selectors == <<"div.tab >> text=upload-image", "text=upload-image">>
cover_selectors   == <<"[class*=cover] input", "[class*=Cover] input", ".cover-image input", ".upload-cover input">>
publish_selectors == <<"button.publishBtn", "button:has-text(publish)">>
draft_selectors   == <<"button:has-text(leave-as-draft), button:has-text(save-draft)">>

PostLoginRoutes == {"creator/home", "new/home"}

VARIABLES
    \* handle_call_tool, run_background_publish and the background script
    tool, handler, ack, spawned, argv2, mainPc, shown, errorLog, escaped,
    \* inputs of publish_to_xiaohongshu
    title, image_urls, video_url, save_draft,
    \* publish_to_xiaohongshu
    pc, prompts, attempts, download_success, lastFail, skipped,
    user_input, error_cause,
    gatherFor, results, pending, succeeded,
    local_image_paths, cover_image_paths, placeholderSeen,
    runStatus, runMsg,
    \* publish_with_playwright: arguments and browser
    image_paths, video_path, pwCalls, browser, launchCount, closeCount, exc,
    \* login_xiaohongshu
    cookie_file, cookieAtStart, sessionGrants, waitResult, loginResult, loginCount, navLogin,
    \* composer
    navComposer, uploaded, coverUploaded, lastResolve, titleField, bodyFilled,
    shots, screenshot_path, btnKind, clicks, holdEntered, polls

inputVars  == <<title, image_urls, video_url, save_draft>>
mainVars   == <<tool, handler, ack, spawned, argv2, mainPc, shown, errorLog, escaped>>
serverVars == <<pc, prompts, attempts, download_success, lastFail, skipped,
                gatherFor, results, pending, succeeded, local_image_paths, cover_image_paths,
                placeholderSeen, runStatus, runMsg>>
promptVars == <<user_input, error_cause>>
pwVars     == <<image_paths, video_path, pwCalls, browser, launchCount, closeCount, exc>>
loginVars  == <<cookie_file, cookieAtStart, sessionGrants, waitResult, loginResult, loginCount, navLogin>>
pageVars   == <<navComposer, uploaded, coverUploaded, lastResolve, titleField, bodyFilled,
                shots, screenshot_path, btnKind, clicks, holdEntered, polls>>
vars == <<inputVars, mainVars, serverVars, promptVars, pwVars, loginVars, pageVars>>

(* ---- helpers ----------------------------------------------------------- *)
MinOf(a, b) == IF a < b THEN a ELSE b

\* seq[:n]
Prefix(s, n) == SubSeq(s, 1, MinOf(Len(s), n))

\* the local file download_image writes for the i-th entry of the list
PathOf(i) == "img" \o ToString(i)

TitleOfLen(n) == [i \in 1..n |-> i]
UrlList(n)    == [i \in 1..n |-> i]
Titles == { TitleOfLen(n) : n \in 0..MaxTitleLen }

\* lastResolve is the lookup the latest step made, NoResolve when it made none
NoResolve == [target |-> "none", matches |-> {}, touched |-> {}, inputs |-> 0]

\* everything but the inputs and the persisted session file
InitRest ==
    /\ pc = "start"
    /\ prompts = 0 /\ attempts = 0
    /\ download_success = FALSE
    /\ lastFail = "none" /\ skipped = FALSE
    /\ user_input = "none" /\ error_cause = "none"
    /\ gatherFor = "none" /\ results = <<>> /\ pending = {} /\ succeeded = {}
    /\ local_image_paths = <<>> /\ cover_image_paths = <<>>
    /\ placeholderSeen = "unchecked"
    /\ runStatus = "running" /\ runMsg = ""
    /\ image_paths = <<>> /\ video_path = NoneStr /\ pwCalls = 0
    /\ browser = "none" /\ launchCount = 0 /\ closeCount = 0 /\ exc = "none"
    /\ cookieAtStart = cookie_file
    /\ sessionGrants = "unknown" /\ waitResult = "unset"
    /\ loginResult = "unset" /\ loginCount = 0 /\ navLogin = 0
    /\ navComposer = 0 /\ uploaded = <<>> /\ coverUploaded = <<>>
    /\ lastResolve = NoResolve
    /\ titleField = [set |-> FALSE, text |-> <<>>]
    /\ bodyFilled = FALSE
    /\ shots = {} /\ screenshot_path = ""
    /\ btnKind = "none" /\ clicks = 0 /\ holdEntered = FALSE /\ polls = 0

(***************************************************************************)
(* publish_to_xiaohongshu: video staging                                   *)
(***************************************************************************)
is_youtube == video_url = "youtube"

\* main() has called publish_to_xiaohongshu; `if video_url:` and
\* `if is_youtube:` select the first step
Start ==
    /\ mainPc = "publish" /\ pc = "start"
    /\ pc' = IF video_url = "none" THEN "img_start"
             ELSE IF is_youtube THEN "cookie_wait" ELSE "video_attempt"
    /\ UNCHANGED <<inputVars, mainVars, promptVars, prompts, attempts, download_success, lastFail, skipped,
                   gatherFor, results, pending, succeeded, local_image_paths, cover_image_paths,
                   placeholderSeen, runStatus, runMsg, pwVars, loginVars, pageVars>>

\* what the loop does with the line the operator typed at its prompt:
\* input(...) is called for its effect only, the loop goes round again
AfterCookiePrompt(reply) == "cookie_wait"

\* while True: cookies.txt present -> break, else prompt with input() and loop.
\* user_input is the line typed at the prompt that was shown last
CookieWait ==
    /\ pc = "cookie_wait"
    /\ \E exists \in BOOLEAN :
         IF exists
         THEN pc' = "video_attempt" /\ prompts' = prompts /\ user_input' = "none"
         ELSE \E reply \in {"skip", ""} :
              /\ prompts < MaxPrompts /\ prompts' = prompts + 1
              /\ user_input' = reply
              /\ pc' = AfterCookiePrompt(reply)
    /\ UNCHANGED error_cause
    /\ UNCHANGED <<inputVars, mainVars, attempts, download_success, lastFail, skipped,
                   gatherFor, results, pending, succeeded, local_image_paths, cover_image_paths,
                   placeholderSeen, runStatus, runMsg, pwVars, loginVars, pageVars>>

\* the keywords of the lowered error text of one failed attempt
\*   viaCli: the yt-dlp subprocess was used (YouTube with cookies.txt present)
\*   cause : what went wrong; fileMade: the output file exists afterwards
\*           ("spawn": the subprocess could not be started)
ErrorWords(viaCli, cause, fileMade) ==
    IF cause \in {"ok", "spawn"} THEN {}
    ELSE IF viaCli THEN {"bot", "sign in"}
    ELSE IF cause = "bot" THEN {"bot"}
    ELSE IF cause = "signin" THEN {"sign in"}
    ELSE {}

AttemptSucceeds(cause, fileMade) == cause = "ok" /\ fileMade

\* `if is_youtube and ('bot' in error_msg or 'sign in' in error_msg)`
Retryable(words) == is_youtube /\ ("bot" \in words \/ "sign in" \in words)

\* one pass of `while not download_success`: the attempt and its except clause;
\* error_cause is what made the attempt of this pass fail
VideoAttempt ==
    /\ pc = "video_attempt"
    /\ attempts < MaxAttempts
    /\ attempts' = attempts + 1
    /\ \E cookieNow \in (IF is_youtube THEN BOOLEAN ELSE {FALSE}),
          cause \in {"ok", "bot", "signin", "other", "spawn"},
          fileMade \in BOOLEAN :
         IF AttemptSucceeds(cause, fileMade)
         THEN /\ download_success' = TRUE
              /\ lastFail' = lastFail
              /\ error_cause' = "none"
              /\ pc' = "video_done"
         ELSE /\ download_success' = FALSE
              /\ error_cause' = IF cause = "ok" THEN "nofile" ELSE cause
              /\ IF Retryable(ErrorWords(cookieNow, cause, fileMade))
                 THEN lastFail' = "retryable" /\ pc' = "video_prompt"
                 ELSE lastFail' = "not_retried" /\ pc' = "video_done"
    /\ user_input' = "none"
    /\ UNCHANGED <<inputVars, mainVars, prompts, skipped,
                   gatherFor, results, pending, succeeded, local_image_paths, cover_image_paths,
                   placeholderSeen, runStatus, runMsg, pwVars, loginVars, pageVars>>

\* `if user_input.strip().lower() == 'skip': break`, else the while loop
\* goes round: there is no count of the passes
AfterVideoPromptOnce(reply) == "video_done"
AfterVideoPrompt(reply) == IF reply = "skip" THEN "video_done" ELSE "video_attempt"

\* input(...) after a retryable failure: 'skip' breaks, anything else retries
VideoPrompt ==
    /\ pc = "video_prompt"
    /\ error_cause' = "none"
    /\ \E reply \in {"skip", ""} :
         /\ user_input' = reply
         /\ skipped' = (skipped \/ reply = "skip")
         /\ pc' = AfterVideoPrompt(reply)
         /\ pc' = "video_attempt" => attempts < MaxAttempts
    /\ UNCHANGED <<inputVars, mainVars, prompts, attempts, download_success, lastFail,
                   gatherFor, results, pending, succeeded, local_image_paths, cover_image_paths,
                   placeholderSeen, runStatus, runMsg, pwVars, loginVars, pageVars>>

\* where the run goes when the download loop is left
AfterVideoAlways(ok) == "cover_start"
AfterVideo(ok) == IF ok THEN "cover_start" ELSE "img_start"

\* the statement after the loop: `if download_success:` ... `else:` fall
\* through to the image batch
VideoDone ==
    /\ pc = "video_done"
    /\ pc' = AfterVideo(download_success)
    /\ user_input' = "none" /\ error_cause' = "none"
    /\ UNCHANGED <<inputVars, mainVars, prompts, attempts, download_success, lastFail, skipped,
                   gatherFor, results, pending, succeeded, local_image_paths, cover_image_paths,
                   placeholderSeen, runStatus, runMsg, pwVars, loginVars, pageVars>>

(***************************************************************************)
(* publish_to_xiaohongshu: concurrent downloads (asyncio.gather)           *)
(***************************************************************************)
PendingSlots(k) == [i \in 1..k |-> PendingStr]

\* download_image(url): the written file, or None on any exception
download_image(i, ok) == IF ok THEN PathOf(i) ELSE NoneStr

\* gather stores the value of task i at position i of its result list,
\* whatever the order in which the tasks complete
GatherSlotByCompletion(res, i, value) ==
    LET firstFree == CHOOSE j \in 1..Len(res) :
                        /\ res[j] = PendingStr
                        /\ \A h \in 1..(j - 1) : res[h] # PendingStr
    IN  [res EXCEPT ![firstFree] = value]
GatherSlot(res, i, value) == [res EXCEPT ![i] = value]

FilterResultsKeep(res) == res

\* [r for r in results if isinstance(r, str) and r]
RECURSIVE FilterResults(_)
FilterResults(res) ==
    IF res = <<>> THEN <<>>
    ELSE IF Head(res) \in {NoneStr, PendingStr} THEN FilterResults(Tail(res))
    ELSE <<Head(res)>> \o FilterResults(Tail(res))

\* the entries of the list a cover task is made for: image_urls[:3]
CoverSourcesAll(urls) == urls
CoverSources(urls) == Prefix(urls, CoverCap)

\* video mode: cover_tasks over image_urls[:3], or no task when the list is empty
CoverStart ==
    /\ pc = "cover_start"
    /\ LET k == Len(CoverSources(image_urls)) IN
         /\ results' = PendingSlots(k)
         /\ pending' = 1..k
         /\ succeeded' = {}
    /\ gatherFor' = "cover"
    /\ pc' = "gather"
    /\ UNCHANGED <<inputVars, mainVars, promptVars, prompts, attempts, download_success, lastFail, skipped,
                   local_image_paths, cover_image_paths,
                   placeholderSeen, runStatus, runMsg, pwVars, loginVars, pageVars>>

\* image mode: download_tasks over image_urls[:9]
ImgStart ==
    /\ pc = "img_start"
    /\ LET k == Len(Prefix(image_urls, ImageCap)) IN
         /\ results' = PendingSlots(k)
         /\ pending' = 1..k
         /\ succeeded' = {}
    /\ gatherFor' = "image"
    /\ pc' = "gather"
    /\ UNCHANGED <<inputVars, mainVars, promptVars, prompts, attempts, download_success, lastFail, skipped,
                   local_image_paths, cover_image_paths,
                   placeholderSeen, runStatus, runMsg, pwVars, loginVars, pageVars>>

\* one of the concurrent download_image tasks completes; succeeded records
\* the tasks that returned a path
GatherStep ==
    /\ pc = "gather"
    /\ \E i \in pending, ok \in BOOLEAN :
         /\ results' = GatherSlot(results, i, download_image(i, ok))
         /\ pending' = pending \ {i}
         /\ succeeded' = IF ok THEN succeeded \cup {i} ELSE succeeded
    /\ UNCHANGED <<inputVars, mainVars, promptVars, pc, prompts, attempts, download_success, lastFail, skipped,
                   gatherFor, local_image_paths, cover_image_paths,
                   placeholderSeen, runStatus, runMsg, pwVars, loginVars, pageVars>>

\* all tasks are done: gather returns and the results are filtered.
\* Covers: publish_with_playwright(video_path=..., cover_image_paths=...) is called.
GatherDone ==
    /\ pc = "gather"
    /\ pending = {}
    /\ IF gatherFor = "cover"
       THEN /\ cover_image_paths' = FilterResults(results)
            /\ video_path' = video_file
            /\ pc' = "pw_entry"
            /\ UNCHANGED local_image_paths
       ELSE /\ local_image_paths' = FilterResults(results)
            /\ pc' = "img_filtered"
            /\ UNCHANGED <<cover_image_paths, video_path>>
    /\ UNCHANGED <<inputVars, mainVars, promptVars, prompts, attempts, download_success, lastFail, skipped,
                   gatherFor, results, pending, succeeded,
                   placeholderSeen, runStatus, runMsg,
                   image_paths, pwCalls, browser, launchCount, closeCount, exc,
                   loginVars, pageVars>>

\* `if not local_image_paths:` use test_lemon.jpg when it exists, else raise;
\* then publish_with_playwright(image_paths=local_image_paths) is called
PlaceholderAlways(exists) == TRUE
PlaceholderNever(exists) == FALSE
PlaceholderUsable(exists) == exists

Placeholder ==
    /\ pc = "img_filtered"
    /\ IF local_image_paths # <<>>
       THEN /\ image_paths' = local_image_paths
            /\ pc' = "pw_entry"
            /\ UNCHANGED <<local_image_paths, placeholderSeen, runStatus, runMsg>>
       ELSE \E exists \in BOOLEAN :
            /\ placeholderSeen' = IF exists THEN "exists" ELSE "absent"
            /\ IF PlaceholderUsable(exists)
               THEN /\ local_image_paths' = <<test_img>>
                    /\ image_paths' = <<test_img>>
                    /\ pc' = "pw_entry"
                    /\ UNCHANGED <<runStatus, runMsg>>
               ELSE /\ runStatus' = "raised"
                    /\ runMsg' = "ValueError: no media"
                    /\ pc' = "done"
                    /\ UNCHANGED <<local_image_paths, image_paths>>
    /\ UNCHANGED <<inputVars, mainVars, promptVars, prompts, attempts, download_success, lastFail, skipped,
                   gatherFor, results, pending, succeeded, cover_image_paths,
                   video_path, pwCalls, browser, launchCount, closeCount, exc,
                   loginVars, pageVars>>

(***************************************************************************)
(* publish_with_playwright: entry, browser launch                          *)
(***************************************************************************)
\* `if not image_paths and not video_path: raise ValueError`, then
\* p.chromium.launch(...); an exception here leaves the function at once
PwEntry ==
    /\ pc = "pw_entry"
    /\ pwCalls' = pwCalls + 1
    /\ IF image_paths = <<>> /\ video_path = NoneStr
       THEN /\ runStatus' = "raised" /\ runMsg' = "ValueError: nothing to upload"
            /\ pc' = "done"
            /\ UNCHANGED <<browser, launchCount>>
       ELSE \E ok \in BOOLEAN :
            IF ok
            THEN /\ browser' = "open" /\ launchCount' = launchCount + 1
                 /\ pc' = "pw_context"
                 /\ UNCHANGED <<runStatus, runMsg>>
            ELSE /\ runStatus' = "raised" /\ runMsg' = "Error: launch"
                 /\ pc' = "done"
                 /\ UNCHANGED <<browser, launchCount>>
    /\ UNCHANGED <<inputVars, mainVars, promptVars, prompts, attempts, download_success, lastFail, skipped,
                   gatherFor, results, pending, succeeded, local_image_paths, cover_image_paths,
                   placeholderSeen, image_paths, video_path, closeCount, exc,
                   loginVars, pageVars>>

\* browser.new_context(...), context.new_page(): before the try statement,
\* so an exception here reaches neither the except nor the finally clause
PwContext ==
    /\ pc = "pw_context"
    /\ \E ok \in BOOLEAN :
         IF ok
         THEN pc' = "login_load" /\ UNCHANGED <<runStatus, runMsg>>
         ELSE /\ runStatus' = "raised" /\ runMsg' = "Error: new_context"
              /\ pc' = "done"
    /\ UNCHANGED <<inputVars, mainVars, promptVars, prompts, attempts, download_success, lastFail, skipped,
                   gatherFor, results, pending, succeeded, local_image_paths, cover_image_paths,
                   placeholderSeen, pwVars, loginVars, pageVars>>

(***************************************************************************)
(* login_xiaohongshu                                                       *)
(***************************************************************************)
\* what the server-side and launch-side variables do during the browser steps
PwFrame == UNCHANGED <<inputVars, mainVars, promptVars, prompts, attempts, download_success, lastFail, skipped,
                       gatherFor, results, pending, succeeded, local_image_paths, cover_image_paths,
                       placeholderSeen, image_paths, video_path, pwCalls, launchCount>>

\* `"creator/home" in page.url or locator("text=...").count() > 0`
CookieLoginAccepts(url, marker) == url = "creator/home" \/ marker

\* `lambda url: "creator/home" in url or "new/home" in url`
WaitAccepts(url) == url \in PostLoginRoutes

\* `if not await login_xiaohongshu(page):` the step after login returns
AfterLoginIgnored(ok) == "goto_composer"
AfterLoginToUpload(ok) == IF ok THEN "i_upload" ELSE "lf_shot"
AfterLogin(ok) == IF ok THEN "goto_composer" ELSE "lf_shot"

\* load_cookies: False when the file is missing, json.load raises on a
\* corrupt file, add_cookies and True otherwise
LoadCookies ==
    /\ pc = "login_load"
    /\ loginCount' = loginCount + 1
    /\ IF cookie_file = "missing"
       THEN pc' = "login_goto_login" /\ exc' = exc
       ELSE IF cookie_file = "corrupt"
       THEN pc' = "pw_except" /\ exc' = "JSONDecodeError"
       ELSE pc' = "login_goto_home" /\ exc' = exc
    /\ PwFrame
    /\ UNCHANGED <<runStatus, runMsg, browser, closeCount,
                   cookie_file, cookieAtStart, sessionGrants, waitResult, loginResult, navLogin,
                   pageVars>>

\* page.goto(creator/home) with the loaded cookies and the check of the
\* resulting page: the platform answers an authenticated client with one of
\* its post-login routes, an unauthenticated one with the login page
CookieLogin ==
    /\ pc = "login_goto_home"
    /\ \E ok \in BOOLEAN, grants \in BOOLEAN,
          url \in PostLoginRoutes \cup {"login"}, marker \in BOOLEAN :
         /\ grants => url \in PostLoginRoutes
         /\ ~grants => (url = "login" /\ ~marker)
         /\ IF ~ok
            THEN /\ pc' = "pw_except" /\ exc' = "Error: goto"
                 /\ UNCHANGED <<sessionGrants, loginResult>>
            ELSE /\ sessionGrants' = IF grants THEN "yes" ELSE "no"
                 /\ exc' = exc
                 /\ IF CookieLoginAccepts(url, marker)
                    THEN loginResult' = "true" /\ pc' = AfterLogin(TRUE)
                    ELSE loginResult' = loginResult /\ pc' = "login_goto_login"
    /\ PwFrame
    /\ UNCHANGED <<runStatus, runMsg, browser, closeCount,
                   cookie_file, cookieAtStart, waitResult, loginCount, navLogin, pageVars>>

\* page.goto(creator/login)
GotoLogin ==
    /\ pc = "login_goto_login"
    /\ \E ok \in BOOLEAN :
         IF ok
         THEN /\ navLogin' = navLogin + 1
              /\ pc' = "login_wait" /\ exc' = exc
         ELSE /\ pc' = "pw_except" /\ exc' = "Error: goto"
              /\ UNCHANGED navLogin
    /\ PwFrame
    /\ UNCHANGED <<runStatus, runMsg, browser, closeCount,
                   cookie_file, cookieAtStart, sessionGrants, waitResult, loginResult, loginCount,
                   pageVars>>

\* page.wait_for_url(..., timeout=120000): the URL matches in time, or the
\* wait raises and the except clause takes over
WaitForUrl ==
    /\ pc = "login_wait"
    /\ \E url \in PostLoginRoutes \cup {"login"} :
         /\ waitResult' = IF WaitAccepts(url) THEN "matched" ELSE "timeout"
         /\ pc' = IF WaitAccepts(url) THEN "login_save" ELSE "login_marker"
    /\ PwFrame
    /\ UNCHANGED <<runStatus, runMsg, browser, closeCount, exc,
                   cookie_file, cookieAtStart, sessionGrants, loginResult, loginCount, navLogin,
                   pageVars>>

\* save_cookies: context.cookies(), open(file, 'w'), json.dump
\*   "ok": the cookies of this context are written ("fresh", as opposed to
\*   "saved", what an earlier run left); "before": raised with the file
\*   untouched; "mid": raised after the file was truncated
SaveOutcomeSkipped(how) == cookie_file
SaveOutcome(how) == IF how = "ok" THEN "fresh" ELSE IF how = "mid" THEN "corrupt" ELSE cookie_file

\* save_cookies inside the try: True on success, into the except clause otherwise
SaveAfterWait ==
    /\ pc = "login_save"
    /\ \E how \in {"ok", "before", "mid"} :
         /\ cookie_file' = SaveOutcome(how)
         /\ IF how = "ok"
            THEN loginResult' = "true" /\ pc' = AfterLogin(TRUE)
            ELSE loginResult' = loginResult /\ pc' = "login_marker"
    /\ PwFrame
    /\ UNCHANGED <<runStatus, runMsg, browser, closeCount, exc,
                   cookieAtStart, sessionGrants, waitResult, loginCount, navLogin, pageVars>>

\* except clause: one more look for a post-login marker; found: save_cookies
\* (an exception of it leaves login_xiaohongshu) and True; else False
MarkerCheck ==
    /\ pc = "login_marker"
    /\ \E marker \in BOOLEAN, how \in {"ok", "before", "mid"} :
         IF marker
         THEN /\ cookie_file' = SaveOutcome(how)
              /\ IF how = "ok"
                 THEN loginResult' = "true" /\ pc' = AfterLogin(TRUE) /\ exc' = exc
                 ELSE loginResult' = loginResult /\ pc' = "pw_except" /\ exc' = "OSError: save_cookies"
         ELSE /\ loginResult' = "false" /\ pc' = AfterLogin(FALSE)
              /\ UNCHANGED <<cookie_file, exc>>
    /\ PwFrame
    /\ UNCHANGED <<runStatus, runMsg, browser, closeCount,
                   cookieAtStart, sessionGrants, waitResult, loginCount, navLogin, pageVars>>

(***************************************************************************)
(* take_screenshot                                                         *)
(***************************************************************************)
\* "raise": os.makedirs fails (outside the try); "fail": page.screenshot
\* raises and "" is returned; "ok": the path is returned.  A closed browser
\* cannot produce a screenshot.
ShotOutcomes == IF browser = "open" THEN {"ok", "fail", "raise"} ELSE {"fail", "raise"}

take_screenshot(label, outcome) == IF outcome = "ok" THEN label ELSE ""

\* the checkpoints at which take_screenshot has been called so far
CheckpointSkipped(taken, label) == taken
Checkpoint(taken, label) == taken \cup {label}

(***************************************************************************)
(* publish_with_playwright: login failure                                  *)
(***************************************************************************)
\* take_screenshot(page, "login_failed")
LoginFailedShot ==
    /\ pc = "lf_shot"
    /\ shots' = Checkpoint(shots, "login_failed")
    /\ \E outcome \in ShotOutcomes :
         IF outcome = "raise"
         THEN pc' = "pw_except" /\ exc' = "OSError: makedirs"
         ELSE pc' = "lf_close" /\ exc' = exc
    /\ PwFrame
    /\ UNCHANGED <<runStatus, runMsg, browser, closeCount, loginVars,
                   navComposer, uploaded, coverUploaded, lastResolve, titleField, bodyFilled,
                   screenshot_path, btnKind, clicks, holdEntered, polls>>

\* browser.close(); raise RuntimeError: the raise is inside the try
LoginFailedClose ==
    /\ pc = "lf_close"
    /\ browser' = "closed"
    /\ closeCount' = closeCount + 1
    /\ exc' = "RuntimeError: login failed"
    /\ pc' = "pw_except"
    /\ PwFrame
    /\ UNCHANGED <<runStatus, runMsg, loginVars, pageVars>>

(***************************************************************************)
(* publish_with_playwright: composer                                       *)
(***************************************************************************)
\* for selector in selectors: if count() > 0: <interact>; break
\* the candidates interacted with, trying candidates i..n in order
RECURSIVE ResolveNoBreak(_, _, _)
ResolveNoBreak(i, n, matches) ==
    IF i > n THEN {}
    ELSE (IF i \in matches THEN {i} ELSE {}) \cup ResolveNoBreak(i + 1, n, matches)
RECURSIVE ResolveFrom(_, _, _)
ResolveFrom(i, n, matches) ==
    IF i > n THEN {}
    ELSE IF i \in matches THEN {i}
    ELSE ResolveFrom(i + 1, n, matches)

Resolve(selectors, matches) == ResolveFrom(1, Len(selectors), matches)

\* safe_title = title[:18] if len(title) > 18 else title
SafeTitleUncut(t) == t
SafeTitle(t) == IF Len(t) > TitleCap THEN SubSeq(t, 1, TitleCap) ELSE t

\* page.goto(publish/publish); `if video_path:` ... `elif image_paths:`
GotoComposer ==
    /\ pc = "goto_composer"
    /\ \E ok \in BOOLEAN :
         IF ok
         THEN /\ navComposer' = navComposer + 1
              /\ pc' = IF video_path # NoneStr THEN "v_tab" ELSE "i_tab"
              /\ exc' = exc
         ELSE pc' = "pw_except" /\ exc' = "Error: goto" /\ UNCHANGED navComposer
    /\ PwFrame
    /\ UNCHANGED <<runStatus, runMsg, browser, closeCount, loginVars,
                   uploaded, coverUploaded, lastResolve, titleField, bodyFilled,
                   shots, screenshot_path, btnKind, clicks, holdEntered, polls>>

\* a step raises only from the interaction with an element it found: a
\* step that found none interacts with nothing (it prints a warning)
StepRaisesOnMiss(found, ok) == ~found \/ ~ok
StepRaises(found, ok) == found /\ ~ok

\* the upload-type tab: clicked when present (video: one locator; image: a
\* locator and its alternative), skipped otherwise
SelectTab ==
    /\ pc \in {"v_tab", "i_tab"}
    /\ LET cands == IF pc = "v_tab" THEN tab_video_selectors ELSE tab_image_selectors IN
       \E matches \in SUBSET (1..Len(cands)), ok \in BOOLEAN :
         LET touched == Resolve(cands, matches) IN
         /\ lastResolve' = [target |-> "tab", matches |-> matches, touched |-> touched,
                           inputs |-> 0]
         /\ IF StepRaises(touched # {}, ok)
            THEN pc' = "pw_except" /\ exc' = "Error: tab click"
            ELSE pc' = (IF pc = "v_tab" THEN "v_upload" ELSE "i_upload") /\ exc' = exc
    /\ PwFrame
    /\ UNCHANGED <<runStatus, runMsg, browser, closeCount, loginVars,
                   navComposer, uploaded, coverUploaded, titleField, bodyFilled,
                   shots, screenshot_path, btnKind, clicks, holdEntered, polls>>

\* the upload of the media raises when the page has no input[type=file]
\* (image mode: the explicit raise; video mode: set_input_files on a
\* locator that matches nothing) and when set_input_files itself fails
UploadRaisesOnFault(inputs, ok) == ~ok
UploadRaises(inputs, ok) == inputs = 0 \/ ~ok

\* file_input.first.set_input_files(video_path): no count() check, so a page
\* without file input makes the call raise
VideoUpload ==
    /\ pc = "v_upload"
    /\ \E inputs \in 0..2, ok \in BOOLEAN :
         /\ lastResolve' = [target |-> "upload", matches |-> {}, touched |-> {},
                           inputs |-> inputs]
         /\ IF UploadRaises(inputs, ok)
            THEN /\ pc' = "pw_except" /\ UNCHANGED uploaded
                 /\ exc' = IF inputs = 0 THEN "TimeoutError: no file input"
                                         ELSE "Error: set_input_files"
            ELSE /\ uploaded' = <<video_path>>
                 /\ pc' = IF cover_image_paths # <<>> THEN "cover" ELSE "fill_title"
                 /\ exc' = exc
    /\ PwFrame
    /\ UNCHANGED <<runStatus, runMsg, browser, closeCount, loginVars,
                   navComposer, coverUploaded, titleField, bodyFilled,
                   shots, screenshot_path, btnKind, clicks, holdEntered, polls>>

\* cover upload: the dedicated cover inputs in order, else the second
\* generic file input, else nothing
HasCoverSlotAnyInput(touched, inputs) == touched # {} \/ inputs >= 1
HasCoverSlot(touched, inputs) == touched # {} \/ inputs >= 2

CoverUpload ==
    /\ pc = "cover"
    /\ \E matches \in SUBSET (1..Len(cover_selectors)), inputs \in 0..2, ok \in BOOLEAN :
         LET touched == Resolve(cover_selectors, matches) IN
         /\ lastResolve' = [target |-> "cover", matches |-> matches, touched |-> touched,
                           inputs |-> IF touched = {} THEN inputs ELSE 0]
         /\ IF StepRaises(HasCoverSlot(touched, inputs), ok)
            THEN pc' = "pw_except" /\ exc' = "Error: set_input_files" /\ UNCHANGED coverUploaded
            ELSE /\ coverUploaded' =
                      IF HasCoverSlot(touched, inputs) THEN <<cover_image_paths[1]>> ELSE <<>>
                 /\ pc' = "fill_title" /\ exc' = exc
    /\ PwFrame
    /\ UNCHANGED <<runStatus, runMsg, browser, closeCount, loginVars,
                   navComposer, uploaded, titleField, bodyFilled,
                   shots, screenshot_path, btnKind, clicks, holdEntered, polls>>

\* `if await file_input.count() > 0: set_input_files(image_paths)` else raise
ImageUpload ==
    /\ pc = "i_upload"
    /\ \E inputs \in 0..1, ok \in BOOLEAN :
         /\ lastResolve' = [target |-> "upload", matches |-> {}, touched |-> {},
                           inputs |-> inputs]
         /\ IF UploadRaises(inputs, ok)
            THEN /\ pc' = "pw_except" /\ UNCHANGED uploaded
                 /\ exc' = IF inputs = 0 THEN "RuntimeError: no file input"
                                         ELSE "Error: set_input_files"
            ELSE uploaded' = image_paths /\ pc' = "fill_title" /\ exc' = exc
    /\ PwFrame
    /\ UNCHANGED <<runStatus, runMsg, browser, closeCount, loginVars,
                   navComposer, coverUploaded, titleField, bodyFilled,
                   shots, screenshot_path, btnKind, clicks, holdEntered, polls>>

\* the title field: first matching candidate .fill(safe_title)
FillTitle ==
    /\ pc = "fill_title"
    /\ \E matches \in SUBSET (1..Len(title_selectors)), ok \in BOOLEAN :
         LET touched == Resolve(title_selectors, matches) IN
         /\ lastResolve' = [target |-> "title", matches |-> matches, touched |-> touched,
                           inputs |-> 0]
         /\ IF StepRaises(touched # {}, ok)
            THEN pc' = "pw_except" /\ exc' = "Error: fill" /\ UNCHANGED titleField
            ELSE /\ titleField' = IF touched # {}
                                  THEN [set |-> TRUE, text |-> SafeTitle(title)]
                                  ELSE titleField
                 /\ pc' = "fill_body" /\ exc' = exc
    /\ PwFrame
    /\ UNCHANGED <<runStatus, runMsg, browser, closeCount, loginVars,
                   navComposer, uploaded, coverUploaded, bodyFilled,
                   shots, screenshot_path, btnKind, clicks, holdEntered, polls>>

\* the content editor: first matching candidate .click(), keyboard.insert_text
FillBody ==
    /\ pc = "fill_body"
    /\ \E matches \in SUBSET (1..Len(content_selectors)), ok \in BOOLEAN :
         LET touched == Resolve(content_selectors, matches) IN
         /\ lastResolve' = [target |-> "content", matches |-> matches, touched |-> touched,
                           inputs |-> 0]
         /\ IF StepRaises(touched # {}, ok)
            THEN pc' = "pw_except" /\ exc' = "Error: click" /\ UNCHANGED bodyFilled
            ELSE /\ bodyFilled' = (touched # {})
                 /\ pc' = "pre_shot" /\ exc' = exc
    /\ PwFrame
    /\ UNCHANGED <<runStatus, runMsg, browser, closeCount, loginVars,
                   navComposer, uploaded, coverUploaded, titleField,
                   shots, screenshot_path, btnKind, clicks, holdEntered, polls>>

\* screenshot_path = take_screenshot(page, "before_publish")
PreShot ==
    /\ pc = "pre_shot"
    /\ shots' = Checkpoint(shots, "before_publish")
    /\ \E outcome \in ShotOutcomes :
         IF outcome = "raise"
         THEN pc' = "pw_except" /\ exc' = "OSError: makedirs" /\ UNCHANGED screenshot_path
         ELSE /\ screenshot_path' = take_screenshot("before_publish", outcome)
              /\ pc' = "submit" /\ exc' = exc
    /\ lastResolve' = NoResolve
    /\ PwFrame
    /\ UNCHANGED <<runStatus, runMsg, browser, closeCount, loginVars,
                   navComposer, uploaded, coverUploaded, titleField, bodyFilled,
                   btnKind, clicks, holdEntered, polls>>

(***************************************************************************)
(* publish_with_playwright: submission                                     *)
(***************************************************************************)
\* save_draft selects the draft locator, else the publish locators
ButtonCandidatesPublish(draft) == publish_selectors
ButtonCandidates(draft) == IF draft THEN draft_selectors ELSE publish_selectors

\* publish_btn = button.publishBtn; if count() == 0: the has-text locator
PublishButton(matches) ==
    IF 1 \in matches THEN {1} ELSE IF 2 \in matches THEN {2} ELSE {}

\* after the post-submit screenshot: the draft hold, or straight to the return
AfterPostShotNoHold(draft) == "return_ok"
AfterPostShot(draft) == IF draft THEN "hold" ELSE "return_ok"

\* the publish/draft button is looked up and, when found, clicked;
\* wait_for_timeout(8000) follows the click
Submit ==
    /\ pc = "submit"
    /\ LET cands == ButtonCandidates(save_draft) IN
       \E matches \in SUBSET (1..Len(cands)), how \in {"ok", "click_raises", "wait_raises"} :
         LET touched == IF cands = draft_selectors THEN matches ELSE PublishButton(matches) IN
         /\ btnKind' = IF cands = draft_selectors THEN "draft" ELSE "publish"
         /\ lastResolve' = [target |-> btnKind', matches |-> matches, touched |-> touched,
                           inputs |-> 0]
         /\ IF touched = {}
            THEN pc' = "nobtn_shot" /\ UNCHANGED <<clicks, exc>>
            ELSE IF how = "click_raises"
            THEN pc' = "pw_except" /\ exc' = "Error: click" /\ UNCHANGED clicks
            ELSE IF how = "wait_raises"
            THEN pc' = "pw_except" /\ exc' = "Error: wait" /\ clicks' = clicks + 1
            ELSE pc' = "post_shot" /\ clicks' = clicks + 1 /\ exc' = exc
    /\ PwFrame
    /\ UNCHANGED <<runStatus, runMsg, browser, closeCount, loginVars,
                   navComposer, uploaded, coverUploaded, titleField, bodyFilled,
                   shots, screenshot_path, holdEntered, polls>>

\* screenshot_path = take_screenshot(page, "after_publish" | "after_save_draft")
PostShot ==
    /\ pc = "post_shot"
    /\ LET label == IF save_draft THEN "after_save_draft" ELSE "after_publish" IN
       /\ shots' = Checkpoint(shots, label)
       /\ \E outcome \in ShotOutcomes :
            IF outcome = "raise"
            THEN pc' = "pw_except" /\ exc' = "OSError: makedirs" /\ UNCHANGED screenshot_path
            ELSE /\ screenshot_path' = take_screenshot(label, outcome)
                 /\ pc' = AfterPostShot(save_draft) /\ exc' = exc
    /\ lastResolve' = NoResolve
    /\ PwFrame
    /\ UNCHANGED <<runStatus, runMsg, browser, closeCount, loginVars,
                   navComposer, uploaded, coverUploaded, titleField, bodyFilled,
                   btnKind, clicks, holdEntered, polls>>

\* for _ in range(30): if page.is_closed(): break; wait_for_timeout(10000)
\* inside try/except Exception: an exception of the wait ends the hold.
\* polls counts the completed passes of the loop that is running; the loop
\* variable is gone when the loop is left
NextPollStuck(n) == n
NextPoll(n) == n + 1

Hold ==
    /\ pc = "hold"
    /\ holdEntered' = TRUE
    /\ IF polls >= HoldPolls
       THEN pc' = "return_ok" /\ polls' = 0
       ELSE \E closed \in BOOLEAN, ok \in BOOLEAN :
            IF closed \/ ~ok
            THEN pc' = "return_ok" /\ polls' = 0
            ELSE pc' = pc /\ polls' = NextPoll(polls)
    /\ PwFrame
    /\ UNCHANGED <<runStatus, runMsg, browser, closeCount, exc, loginVars,
                   navComposer, uploaded, coverUploaded, lastResolve, titleField, bodyFilled,
                   shots, screenshot_path, btnKind, clicks>>

\* result_msg of the clicked branch; `return` runs the finally clause
ReturnOk ==
    /\ pc = "return_ok"
    /\ runMsg' = IF save_draft THEN "draft saved" ELSE "published"
    /\ pc' = "pw_finally"
    /\ PwFrame
    /\ UNCHANGED <<runStatus, browser, closeCount, exc, loginVars, pageVars>>

\* no button: take_screenshot(page, "no_publish_btn"), the manual message
NoButtonShot ==
    /\ pc = "nobtn_shot"
    /\ shots' = Checkpoint(shots, "no_publish_btn")
    /\ \E outcome \in ShotOutcomes :
         IF outcome = "raise"
         THEN /\ pc' = "pw_except" /\ exc' = "OSError: makedirs"
              /\ UNCHANGED <<screenshot_path, runMsg>>
         ELSE /\ screenshot_path' = take_screenshot("no_publish_btn", outcome)
              /\ runMsg' = "please complete manually"
              /\ pc' = "pw_finally" /\ exc' = exc
    /\ lastResolve' = NoResolve
    /\ PwFrame
    /\ UNCHANGED <<runStatus, browser, closeCount, loginVars,
                   navComposer, uploaded, coverUploaded, titleField, bodyFilled,
                   btnKind, clicks, holdEntered, polls>>

(***************************************************************************)
(* publish_with_playwright: except and finally                             *)
(***************************************************************************)
\* except Exception: take_screenshot(page, "error"); raise
PwExcept ==
    /\ pc = "pw_except"
    /\ shots' = Checkpoint(shots, "error")
    /\ \E outcome \in ShotOutcomes :
         exc' = IF outcome = "raise" THEN "OSError: makedirs" ELSE exc
    /\ pc' = "pw_finally"
    /\ lastResolve' = NoResolve
    /\ PwFrame
    /\ UNCHANGED <<runStatus, runMsg, browser, closeCount, loginVars,
                   navComposer, uploaded, coverUploaded, titleField, bodyFilled,
                   screenshot_path, btnKind, clicks, holdEntered, polls>>

\* where the run goes when publish_with_playwright is left: both calls are
\* `result = await publish_with_playwright(...)`, `return result` under a
\* try statement that has a finally clause only
AfterEngineFallback(video, raised) == IF video /\ raised THEN "img_start" ELSE "done"
AfterEngine(video, raised) == "done"

\* finally: browser.close(); the pending return or exception then leaves
\* publish_with_playwright and, uncaught, publish_to_xiaohongshu
PwFinally ==
    /\ pc = "pw_finally"
    /\ browser' = "closed"
    /\ closeCount' = closeCount + 1
    /\ IF exc # "none"
       THEN runStatus' = "raised" /\ runMsg' = exc
       ELSE runStatus' = "returned" /\ runMsg' = runMsg
    /\ pc' = AfterEngine(video_path # NoneStr, exc # "none")
    /\ PwFrame
    /\ UNCHANGED <<exc, loginVars, pageVars>>

(***************************************************************************)
(* handle_call_tool and run_background_publish                             *)
(***************************************************************************)
PublishTools == {"generate_and_publish_recipe", "generate_and_save_draft_recipe"}

\* is_draft = (name == "generate_and_save_draft_recipe")
IsDraftTool(name) == name = "generate_and_save_draft_recipe"

\* str(save_draft), the third word of the command line
PyStrLower(b) == IF b THEN "true" ELSE "false"
PyStr(b) == IF b THEN "True" ELSE "False"

\* a run whose process exists: the state in which main() starts
Spawned(name) ==
    /\ tool = name
    /\ spawned = 1
    /\ argv2 = PyStr(IsDraftTool(name))
    /\ shown = <<>> /\ errorLog = "absent" /\ escaped = "none"

\* run_background_publish: the script is written and subprocess.Popen starts
\* it detached; Popen does not wait for the child.  An exception (of the
\* temporary file, of Popen) is caught by the handler and returned as text
SpawnRun ==
    /\ handler = "called"
    /\ \E ok \in BOOLEAN :
         IF ok
         THEN /\ spawned' = spawned + 1
              /\ argv2' = PyStr(IsDraftTool(tool))
              /\ mainPc' = "args"
              /\ handler' = "spawned" /\ ack' = ack
         ELSE /\ handler' = "returned" /\ ack' = "start failed"
              /\ UNCHANGED <<spawned, argv2, mainPc>>
    /\ UNCHANGED <<inputVars, tool, shown, errorLog, escaped,
                   serverVars, promptVars, pwVars, loginVars, pageVars>>

\* return [TextContent("... started in the background")]
ToolReturn ==
    /\ handler = "spawned"
    /\ handler' = "returned" /\ ack' = "started"
    /\ UNCHANGED <<inputVars, tool, spawned, argv2, mainPc, shown, errorLog, escaped,
                   serverVars, promptVars, pwVars, loginVars, pageVars>>

(***************************************************************************)
(* the background script: main()                                           *)
(***************************************************************************)
\* the steps of main() leave the publish run alone
MainFrame ==
    UNCHANGED <<title, image_urls, video_url, tool, handler, ack, spawned, argv2,
                serverVars, promptVars, pwVars, loginVars, pageVars>>

\* is_draft = sys.argv[2] == "True"
MainArgs ==
    /\ mainPc = "args"
    /\ save_draft' = (argv2 = "True")
    /\ mainPc' = "extract"
    /\ MainFrame
    /\ UNCHANGED <<shown, errorLog, escaped>>

\* recipe_data = await extract_recipe_from_url(target_url)
MainExtract ==
    /\ mainPc = "extract"
    /\ \E ok \in BOOLEAN : mainPc' = IF ok THEN "generate" ELSE "except"
    /\ MainFrame
    /\ UNCHANGED <<save_draft, shown, errorLog, escaped>>

\* post_data = await generate_xiaohongshu_post(recipe_data); the call of
\* publish_to_xiaohongshu follows
MainGenerate ==
    /\ mainPc = "generate"
    /\ \E ok \in BOOLEAN : mainPc' = IF ok THEN "publish" ELSE "except"
    /\ MainFrame
    /\ UNCHANGED <<save_draft, shown, errorLog, escaped>>

\* the terminal message main() prints when publish_to_xiaohongshu has
\* returned: the returned text is not looked at
TerminalMessage(msg) == "success"

\* await publish_to_xiaohongshu(...) has returned: the three success lines
\* are printed, the finally clause sleeps and main() returns
MainPublished ==
    /\ mainPc = "publish" /\ pc = "done" /\ runStatus = "returned"
    /\ shown' = Append(shown, TerminalMessage(runMsg))
    /\ mainPc' = "exited"
    /\ MainFrame
    /\ UNCHANGED <<save_draft, errorLog, escaped>>

\* what the handler's file block does to publish_error.log: open(log, 'w'),
\* f.write(str(_e)), f.write("\n\n"), then traceback.print_report(file=f);
\* the traceback module has no print_report, so that the last call raises
\* AttributeError and the file is closed with the message alone
WriteLog(log) == [log |-> "message", raised |-> "AttributeError: print_report"]

\* except Exception as _e, entered by an exception of the extraction, of the
\* generation or of publish_to_xiaohongshu: the failure is printed, then
\* logged; what the handler raises leaves main() after the sleep of the
\* finally clause
MainExcept ==
    /\ \/ mainPc = "except"
       \/ mainPc = "publish" /\ pc = "done" /\ runStatus = "raised"
    /\ shown' = Append(shown, "failure")
    /\ errorLog' = WriteLog(errorLog).log
    /\ escaped' = WriteLog(errorLog).raised
    /\ mainPc' = "exited"
    /\ MainFrame
    /\ UNCHANGED save_draft

(***************************************************************************)
(* specifications                                                          *)
(***************************************************************************)
NextStage == Start \/ ImgStart \/ GatherStep \/ GatherDone \/ Placeholder

NextVideo == CookieWait \/ VideoAttempt \/ VideoPrompt \/ VideoDone \/ CoverStart
                \/ VideoUpload \/ CoverUpload

NextMain == MainArgs \/ MainExtract \/ MainGenerate \/ MainPublished \/ MainExcept

NextPw == PwEntry \/ PwContext
            \/ LoadCookies \/ CookieLogin \/ GotoLogin \/ WaitForUrl \/ SaveAfterWait \/ MarkerCheck
            \/ LoginFailedShot \/ LoginFailedClose
            \/ GotoComposer \/ SelectTab \/ ImageUpload \/ FillTitle \/ FillBody \/ PreShot
            \/ Submit \/ PostShot \/ Hold \/ ReturnOk \/ NoButtonShot
            \/ PwExcept \/ PwFinally

\* whole runs of the background script over every input but the title, which
\* is the longest one; the tool call that started the run has returned
Init ==
    /\ \E name \in PublishTools : Spawned(name)
    /\ handler = "returned" /\ ack = "started"
    /\ mainPc = "args"
    /\ title = TitleOfLen(MaxTitleLen)
    /\ image_urls \in {UrlList(n) : n \in 0..MaxUrls}
    /\ video_url \in {"none", "generic", "youtube"}
    /\ save_draft = FALSE
    /\ cookie_file \in {"missing", "corrupt", "saved"}
    /\ InitRest

Next == NextMain \/ NextStage \/ NextVideo \/ NextPw

Spec == Init /\ [][Next]_vars

\* main() has called publish_to_xiaohongshu with the flag of its tool
InPublish ==
    /\ \E name \in PublishTools : Spawned(name) /\ save_draft = IsDraftTool(name)
    /\ handler = "returned" /\ ack = "started"
    /\ mainPc = "publish"

\* image-only runs over every title
InitTitle ==
    /\ title \in Titles
    /\ image_urls = UrlList(1)
    /\ video_url = "none"
    /\ save_draft \in BOOLEAN
    /\ InPublish
    /\ cookie_file \in {"missing", "saved"}
    /\ InitRest

NextTitle == NextStage \/ NextPw

SpecTitle == InitTitle /\ [][NextTitle]_vars

\* the image batch alone, up to the call of publish_with_playwright
InitStage ==
    /\ title = TitleOfLen(0)
    /\ image_urls \in {UrlList(n) : n \in 0..MaxBatch}
    /\ video_url = "none"
    /\ save_draft = FALSE
    /\ InPublish
    /\ cookie_file = "saved"
    /\ InitRest

SpecStage == InitStage /\ [][NextStage]_vars

\* the staging of the media in both modes, long lists included, up to the
\* call of publish_with_playwright
InitCovers ==
    /\ title = TitleOfLen(0)
    /\ image_urls \in {UrlList(n) : n \in 0..MaxBatch}
    /\ video_url \in {"none", "generic"}
    /\ save_draft = FALSE
    /\ InPublish
    /\ cookie_file = "saved"
    /\ InitRest

NextCovers == NextStage \/ VideoAttempt \/ VideoDone \/ CoverStart

SpecCovers == InitCovers /\ [][NextCovers]_vars

\* one-image runs in both modes, with the steps of the publish engine taken
\* sooner or later: the engine is one coroutine and each of its awaits
\* completes or times out
InitHold ==
    /\ title = TitleOfLen(MaxTitleLen)
    /\ image_urls = UrlList(1)
    /\ video_url = "none"
    /\ save_draft \in BOOLEAN
    /\ InPublish
    /\ cookie_file \in {"missing", "saved"}
    /\ InitRest

SpecHold == InitHold /\ [][NextTitle]_vars /\ WF_vars(NextPw)

\* a tool call and the head of the run it starts, over every content the
\* extraction and the generation can hand to the publish engine
InitTool ==
    /\ tool \in PublishTools
    /\ handler = "called" /\ ack = "none"
    /\ spawned = 0 /\ argv2 = "unset"
    /\ shown = <<>> /\ errorLog = "absent" /\ escaped = "none"
    /\ mainPc = "unspawned"
    /\ title \in Titles
    /\ image_urls \in {UrlList(n) : n \in 0..MaxUrls}
    /\ video_url \in {"none", "generic", "youtube"}
    /\ save_draft = FALSE
    /\ cookie_file \in {"missing", "corrupt", "saved"}
    /\ InitRest

NextTool == SpawnRun \/ ToolReturn \/ MainArgs \/ MainExtract \/ MainGenerate
              \/ MainExcept

SpecTool == InitTool /\ [][NextTool]_vars

(***************************************************************************)
(* properties                                                              *)
(***************************************************************************)
LeastOf(S) == CHOOSE m \in S : \A k \in S : m <= k

\* the paths of the tasks in S, by position in the input list
RECURSIVE PathsInOrder(_)
PathsInOrder(S) ==
    IF S = {} THEN <<>>
    ELSE <<PathOf(LeastOf(S))>> \o PathsInOrder(S \ {LeastOf(S)})

\* C1: every finished run that launched a browser has invoked the
\* browser-close operation exactly once, on whatever path it ended.
C1_CloseExactlyOnce ==
    (pc = "done" /\ launchCount >= 1) => closeCount = 1

\* C2: the text written into the title field is the first 18 characters of
\* a title longer than 18 and the unchanged title otherwise, and a title
\* field that was found is filled whatever the length of the title.
C2_TitleTruncated ==
    /\ titleField.set =>
         /\ Len(title) > TitleCap => titleField.text = SubSeq(title, 1, TitleCap)
         /\ Len(title) <= TitleCap => titleField.text = title
    /\ (pc = "fill_body" /\ lastResolve.target = "title" /\ lastResolve.matches # {})
         => titleField.set

C2_Witness ==
    /\ titleField.set
    /\ Len(title) > TitleCap
    /\ Len(titleField.text) = TitleCap

\* C3 as stated: with an empty image list and no video the run fails and no
\* browser is launched, whatever files exist on disk.
C3_NoMediaNeverLaunches ==
    (image_urls = <<>> /\ video_url = "none") =>
        /\ launchCount = 0
        /\ pc = "done" => runStatus = "raised"

\* C3 as amended: with an empty image list and no video, the run fails
\* without entering the publish engine or launching a browser when the
\* bundled placeholder image is not on disk; when it is, the placeholder is
\* the one staged image.
C3_NoMediaWithoutPlaceholder ==
    (image_urls = <<>> /\ video_url = "none") =>
        /\ placeholderSeen # "exists" =>
             /\ launchCount = 0 /\ pwCalls = 0
             /\ pc = "done" => runStatus = "raised"
        /\ placeholderSeen = "absent" => pc = "done"
        /\ placeholderSeen = "exists" => local_image_paths = <<test_img>>

C3_Witness ==
    /\ image_urls = <<>> /\ video_url = "none"
    /\ placeholderSeen = "absent"
    /\ pc = "done" /\ runStatus = "raised" /\ launchCount = 0

\* C4: for the title field, the content editor, the cover input and the
\* publish button, the only candidate interacted with is the lowest-index
\* candidate that matches; none is interacted with when none matches.
C4_LowestCandidate ==
    lastResolve.target \in {"title", "content", "cover", "publish"} =>
        lastResolve.touched = IF lastResolve.matches = {} THEN {}
                              ELSE {LeastOf(lastResolve.matches)}

C4_Witness ==
    /\ lastResolve.target = "title"
    /\ lastResolve.matches = {2, 3}
    /\ lastResolve.touched = {2}

\* C5: whatever the completion order and whichever downloads fail, the
\* staged list holds one path per successful download, in input order, and
\* every task has completed; that list is what the publish engine receives
\* when it is not empty.
C5_DownloadIsolation ==
    /\ (gatherFor = "image" /\ pc = "img_filtered") =>
         /\ local_image_paths = PathsInOrder(succeeded)
         /\ \A i \in 1..Len(results) : results[i] # PendingStr
         /\ Len(results) = MinOf(Len(image_urls), ImageCap)
    /\ (gatherFor = "image" /\ pc = "pw_entry" /\ succeeded # {}) =>
         image_paths = PathsInOrder(succeeded)

C5_Witness ==
    /\ pc = "pw_entry"
    /\ Len(image_urls) = 5
    /\ succeeded = {1, 3, 4, 5}
    /\ image_paths = <<PathOf(1), PathOf(3), PathOf(4), PathOf(5)>>

\* C6: a saved session that still grants access never leads to a navigation
\* to the login route, whichever post-login route the platform answers with.
C6_SessionReuse ==
    (cookieAtStart = "saved" /\ sessionGrants = "yes") => navLogin = 0

\* C7: in draft mode only the draft button is looked up, and a run that
\* took the post-submit screenshot enters the hold before it returns; in
\* publish mode the hold is never entered and the run returns right after
\* the post-submit screenshot.
C7_DraftBranch ==
    /\ save_draft => btnKind \in {"none", "draft"}
    /\ pc = "hold" => (save_draft /\ clicks = 1 /\ "after_save_draft" \in shots)
    /\ (save_draft /\ pc \in {"return_ok", "pw_finally", "done"} /\ "after_save_draft" \in shots
          /\ exc = "none") => holdEntered
    /\ ~save_draft => ~holdEntered
    /\ (~save_draft /\ pc = "return_ok") => (clicks = 1 /\ "after_publish" \in shots)

C7_Witness ==
    /\ save_draft /\ holdEntered
    /\ pc = "done" /\ runStatus = "returned" /\ runMsg = "draft saved"

\* C8: a missing or corrupt session file never makes loading raise.
C8_LoadNeverFails ==
    cookieAtStart \in {"missing", "corrupt"} => exc # "JSONDecodeError"

\* C9: when login returns false, the login-failure screenshot is attempted,
\* the run ends with an error, login was attempted once, and the composer is
\* never opened: no upload, no title, no body, no click.
C9_AuthFailureFatal ==
    loginResult = "false" =>
        /\ pc = "lf_shot" \/ "login_failed" \in shots
        /\ loginCount = 1 /\ pwCalls = 1
        /\ navComposer = 0 /\ uploaded = <<>> /\ coverUploaded = <<>>
        /\ ~titleField.set /\ ~bodyFilled /\ clicks = 0
        /\ pc = "done" => runStatus = "raised"

C9_Witness ==
    /\ loginResult = "false"
    /\ pc = "done" /\ runStatus = "raised"
    /\ "login_failed" \in shots

\* C10 as stated: after a video download failure that is not retried and
\* not skipped the run fails and the publish engine is never entered.
C10_VideoFailureFatal ==
    (lastFail = "not_retried" /\ ~skipped) =>
        /\ pwCalls = 0
        /\ pc = "done" => runStatus = "raised"

\* C10 as amended: after a video download failure that is not retried no
\* video and no cover reaches the publish engine; the run goes on with the
\* image batch and enters the engine with images only, unless no image and
\* no placeholder can be staged.
C10_VideoFailureDegrades ==
    lastFail = "not_retried" =>
        /\ ~download_success /\ ~skipped
        /\ video_path = NoneStr /\ cover_image_paths = <<>> /\ uploaded # <<video_file>>
        /\ pc # "cover_start" /\ gatherFor # "cover"
        /\ pwCalls >= 1 => (image_paths # <<>> /\ image_paths = local_image_paths)
        /\ (pc = "done" /\ pwCalls = 0) => placeholderSeen = "absent"

C10_Witness ==
    /\ lastFail = "not_retried"
    /\ pc = "done" /\ runStatus = "returned"
    /\ clicks = 1 /\ uploaded = image_paths

\* C11: at each prompt of the video credential recovery, a typed skip ends
\* the wait: the download loop is over with no further attempt and without
\* a video, so that the run goes on as an image-only publish.
C11_SkipEndsWait ==
    user_input = "skip" => (pc = "video_done" /\ ~download_success)

\* C20: the operator is re-prompted after a failed attempt only on the
\* recognized video host and only after a failure of the bot or sign-in
\* class; every other failed attempt ends the loop at once.
C20_RetryOnlyBotOrSignIn ==
    /\ pc = "video_prompt" => (is_youtube /\ error_cause \in {"bot", "signin"})
    /\ (pc = "video_done" /\ error_cause \notin {"none", "bot", "signin"})
          => lastFail = "not_retried"

\* C12: a run whose publish (or draft) button did not resolve does not
\* raise: it ends returned with the manual-completion message, after the
\* no-button screenshot, with no click and the browser closed.
C12_NoButtonReturnsManual ==
    /\ (pc = "nobtn_shot" \/ "no_publish_btn" \in shots) => clicks = 0
    /\ (pc = "done" /\ "no_publish_btn" \in shots)
        => /\ runStatus = "returned"
           /\ runMsg = "please complete manually"
           /\ browser = "closed"

\* C13: a selector-resolution miss of the upload-type tab, the cover input,
\* the title field or the content editor never ends the run: the step that
\* missed raises nothing and hands over to the next step, so that the
\* pre-publish screenshot and the submission step stay ahead of the run
\* for every combination of misses.
C13_MissIsSkipped ==
    [][ /\ (pc \in {"v_tab", "i_tab"} /\ lastResolve'.touched = {})
            => (pc' \in {"v_upload", "i_upload"} /\ exc' = "none")
        /\ (pc = "cover" /\ lastResolve'.touched = {} /\ lastResolve'.inputs < 2)
            => (pc' = "fill_title" /\ exc' = "none" /\ coverUploaded' = <<>>)
        /\ (pc = "fill_title" /\ lastResolve'.touched = {})
            => (pc' = "fill_body" /\ exc' = "none" /\ ~titleField'.set)
        /\ (pc = "fill_body" /\ lastResolve'.touched = {})
            => (pc' = "pre_shot" /\ exc' = "none" /\ ~bodyFilled')
      ]_vars

\* a video run with covers that missed the cover slot, the title field and
\* the content editor, and stands at the submission step
C13_Witness ==
    /\ pc = "submit"
    /\ "before_publish" \in shots
    /\ video_path # NoneStr /\ cover_image_paths # <<>>
    /\ coverUploaded = <<>> /\ ~titleField.set /\ ~bodyFilled
    /\ exc = "none"

\* C14: a background run that has ended has shown the operator exactly one
\* terminal message, and the message is the one of its outcome: the success
\* confirmation after a click of the publish or draft button, the
\* manual-completion notice when no button was found, the failure
\* description when a step of the run raised.
C14_OneMatchingMessage ==
    mainPc = "exited" =>
        /\ Len(shown) = 1
        /\ (pc = "done" /\ runStatus = "returned" /\ clicks >= 1) => shown[1] = "success"
        /\ (pc = "done" /\ runStatus = "returned" /\ clicks = 0) => shown[1] = "manual"
        /\ (pc # "done" \/ runStatus = "raised") => shown[1] = "failure"

\* C15: an exception of the run is caught by the handler of main(), which
\* leaves an entry in publish_error.log and raises nothing itself: no
\* exception leaves main().
C15_HandlerEndsNormally ==
    /\ escaped = "none"
    /\ (mainPc = "exited" /\ shown = <<"failure">>) => errorLog # "absent"

\* C17: a call of either publish tool starts at most one run, exactly one
\* when it acknowledges the start; the acknowledgement can be returned at
\* whatever step the run stands; a start that failed is answered with a text
\* result and no run; and the run publishes with the draft flag exactly when
\* the draft tool was called.
C17_DetachedRun ==
    /\ spawned <= 1
    /\ handler = "spawned" => ENABLED ToolReturn
    /\ (handler = "returned" /\ ack = "started") => spawned = 1
    /\ (handler = "returned" /\ ack # "started") =>
          (ack = "start failed" /\ spawned = 0 /\ mainPc = "unspawned")
    /\ mainPc \notin {"unspawned", "args"} => (save_draft <=> IsDraftTool(tool))

\* the draft tool has been acknowledged and its run has reached the call of
\* publish_to_xiaohongshu with the draft flag set
C17_Witness ==
    /\ IsDraftTool(tool)
    /\ handler = "returned" /\ ack = "started" /\ spawned = 1
    /\ mainPc = "publish" /\ save_draft /\ argv2 = "True"

\* C16: the placeholder is looked for exactly when the image batch staged
\* no file.  If it is on disk it is the one image handed to the publish
\* engine and the only file uploaded; if it is not, the run has ended with
\* the no-media error and the publish engine was never called.
C16_PlaceholderFallback ==
    (gatherFor = "image" /\ pc \notin {"gather", "img_filtered"}) =>
        /\ succeeded = {} <=> placeholderSeen # "unchecked"
        /\ placeholderSeen = "exists" =>
             /\ local_image_paths = <<test_img>> /\ image_paths = <<test_img>>
             /\ video_path = NoneStr
             /\ uploaded \in {<<>>, <<test_img>>}
        /\ placeholderSeen = "absent" =>
             /\ pc = "done" /\ runStatus = "raised" /\ runMsg = "ValueError: no media"
             /\ pwCalls = 0 /\ launchCount = 0

\* two image downloads failed, the placeholder was found and published
C16_Witness ==
    /\ Len(image_urls) = 2 /\ succeeded = {}
    /\ placeholderSeen = "exists"
    /\ uploaded = <<test_img>> /\ clicks = 1
    /\ pc = "done" /\ runStatus = "returned"

\* C18: login has returned true through the interactive branch only with
\* the session file holding the cookies of this run's browser context: the
\* save precedes the return, and it overwrites whatever an earlier run left.
C18_InteractiveSuccessSaves ==
    (loginResult = "true" /\ navLogin >= 1) =>
        /\ cookie_file = "fresh"
        /\ waitResult \in {"matched", "timeout"}

\* a stale session of an earlier run was rejected, the operator logged in
\* and the file was overwritten before the composer was opened
C18_Witness ==
    /\ cookieAtStart = "saved" /\ sessionGrants = "no"
    /\ navLogin = 1 /\ waitResult = "timeout"
    /\ loginResult = "true" /\ cookie_file = "fresh"
    /\ pc = "goto_composer"

\* C19: login returns false only after the three checks failed in order
\* (the cookie login, the wait for a post-login URL, the look for a marker
\* element), and a marker found after a failed wait makes it return true.
C19_FalseOnlyAfterThreeFailures ==
    /\ loginResult = "false" =>
         /\ cookieAtStart = "saved" => sessionGrants = "no"
         /\ navLogin = 1 /\ waitResult = "timeout"
    /\ waitResult = "timeout" => exc # "OSError: save_cookies"

\* C21: the download loop is left only by a successful download, by a typed
\* skip or by a failure that is not retried, and it is left at the very step
\* at which the download succeeds or skip is typed; nothing else ends it, so
\* that any number of attempts can be made.
C21_LoopLeftOnlyByOutcome ==
    /\ pc = "video_done" => (download_success \/ skipped \/ lastFail = "not_retried")
    /\ (download_success \/ skipped) => pc \notin {"video_attempt", "video_prompt"}
    /\ pc = "video_prompt" => (lastFail = "retryable" /\ attempts >= 1)

\* as many failed attempts as the model explores have been made and the
\* loop is still running: the operator is asked once more
C21_Witness ==
    /\ pc = "video_prompt"
    /\ attempts = MaxAttempts
    /\ ~download_success /\ ~skipped

StepOrder ==
    <<"pw_entry", "pw_context",
      "login_load", "login_goto_home", "login_goto_login", "login_wait", "login_save",
      "login_marker", "lf_shot", "lf_close",
      "goto_composer", "v_tab", "i_tab", "v_upload", "cover", "i_upload",
      "fill_title", "fill_body", "pre_shot", "submit", "post_shot", "nobtn_shot",
      "hold", "return_ok", "pw_except", "pw_finally", "done">>

Steps == { StepOrder[i] : i \in 1..Len(StepOrder) }

StepRank == [p \in Steps |-> CHOOSE i \in 1..Len(StepOrder) : StepOrder[i] = p]

EndSteps == {"pw_except", "pw_finally", "done"}

\* the steps from p on, the end of the run included
StepsFrom(p) == { q \in Steps : StepRank[q] >= StepRank[p] } \cup EndSteps

FromComposer == StepsFrom("goto_composer") \ EndSteps
FromTab      == StepsFrom("v_tab") \ EndSteps
FromTitle    == StepsFrom("fill_title") \ EndSteps
FromBody     == StepsFrom("fill_body")
FromPreShot  == StepsFrom("pre_shot")
FromSubmit   == StepsFrom("submit") \ EndSteps

\* what has been done when the run stands at a step
StepPrerequisites ==
    /\ loginCount <= 1 /\ navComposer <= 1 /\ clicks <= 1
    /\ pc \in FromComposer => (loginResult = "true" /\ loginCount = 1)
    /\ pc \in FromTab => navComposer = 1
    /\ pc \in FromTitle => uploaded # <<>>
    /\ titleField.set => pc \in FromBody
    /\ bodyFilled => pc \in FromPreShot
    /\ pc \in FromSubmit => "before_publish" \in shots
    /\ pc \in {"post_shot", "hold"} => clicks = 1
    /\ pc = "nobtn_shot" => clicks = 0
    /\ pc = "hold" => "after_save_draft" \in shots
    /\ (pc = "return_ok" /\ save_draft) => holdEntered
    /\ pc = "return_ok" => (clicks = 1 /\ shots \cap {"after_publish", "after_save_draft"} # {})

\* C23: a run of the publish engine moves forward only, in the order login,
\* composer, upload mode, upload, title, body, pre-publish screenshot,
\* click, post-submit screenshot, hold, end: each step is entered with the
\* earlier ones done or skipped, none is entered a second time, and only
\* the hold repeats its poll.
C23_StepsInOrder ==
    [][ /\ StepPrerequisites'
        /\ (pc \in Steps \ {"done"}) =>
              \/ StepRank[pc'] > StepRank[pc]
              \/ pc = "hold" /\ pc' = "hold" /\ polls' = polls + 1
      ]_vars

\* a draft run that went through every step, the hold included
C23_Witness ==
    /\ pc = "return_ok" /\ save_draft /\ holdEntered
    /\ loginCount = 1 /\ navComposer = 1 /\ clicks = 1
    /\ uploaded # <<>> /\ titleField.set /\ bodyFilled
    /\ {"before_publish", "after_save_draft"} \subseteq shots

C25_HoldEnds ==
    /\ [](pc = "hold" => (save_draft /\ btnKind = "draft" /\ clicks = 1 /\ polls <= HoldPolls))
    /\ [][(pc = "hold" /\ pc' = "hold") => (polls < HoldPolls /\ polls' = polls + 1)]_vars
    /\ [][(pc = "hold" /\ pc' # "hold") => (pc' = "return_ok" /\ exc' = "none")]_vars
    /\ (pc = "hold") ~> (/\ pc = "done" /\ runStatus = "returned" /\ runMsg = "draft saved"
                         /\ browser = "closed" /\ closeCount = 1)

\* the thirtieth poll has been made and the run is still in the hold
C25_Witness ==
    /\ pc = "hold" /\ polls = HoldPolls
    /\ save_draft /\ holdEntered

\* C26: a failed capture is never escalated: no run carries an exception
\* that comes from take_screenshot, and a run whose button was clicked
\* ends returned whatever the post-submit capture did.
C26_CaptureNeverEscalated ==
    /\ exc # "OSError: makedirs"
    /\ (pc = "done" /\ clicks = 1) => runStatus = "returned"

\* C27: whatever the length of the list, a gather of images has at most 9
\* tasks and hands at most 9 paths on; a gather of covers has at most 3
\* tasks, and every cover path handed on is the file of one of the first 3
\* entries of the list.
C27_DownloadCaps ==
    /\ gatherFor = "image" => (Len(results) <= ImageCap /\ pending \subseteq 1..ImageCap)
    /\ Len(local_image_paths) <= ImageCap /\ Len(image_paths) <= ImageCap
    /\ gatherFor = "cover" => (Len(results) <= CoverCap /\ pending \subseteq 1..CoverCap)
    /\ Len(cover_image_paths) <= CoverCap
    /\ \A j \in 1..Len(cover_image_paths) :
         \E i \in 1..MinOf(CoverCap, Len(image_urls)) : cover_image_paths[j] = PathOf(i)

\* a list longer than 3: the video is staged with exactly 3 covers
C27_Witness ==
    /\ Len(image_urls) > CoverCap
    /\ pc = "pw_entry" /\ video_path = video_file
    /\ Len(cover_image_paths) = CoverCap

\* C28: covers are downloaded and handed to the publish engine only after
\* a successful video download; when the cover downloads are over, failed
\* or not, the engine is called with the video and with exactly the covers
\* that succeeded; an image-mode call carries no cover.
C28_CoversOnlyWithVideo ==
    /\ [](/\ (gatherFor = "cover" \/ cover_image_paths # <<>>) =>
                (download_success /\ video_url # "none")
          /\ (pwCalls >= 1 /\ video_path = NoneStr) =>
                (cover_image_paths = <<>> /\ coverUploaded = <<>>))
    /\ [][(pc = "gather" /\ gatherFor = "cover" /\ pc' # "gather") =>
            /\ pc' = "pw_entry" /\ runStatus' = "running"
            /\ video_path' = video_file /\ image_paths' = <<>>
            /\ Len(cover_image_paths') = Cardinality(succeeded)
            /\ \A j \in 1..Len(cover_image_paths') :
                 \E i \in succeeded : cover_image_paths'[j] = PathOf(i)]_vars

\* every cover download failed and the video was published without cover
C28_Witness ==
    /\ image_urls # <<>> /\ gatherFor = "cover" /\ succeeded = {}
    /\ cover_image_paths = <<>>
    /\ uploaded = <<video_file>> /\ clicks = 1
    /\ pc = "done" /\ runStatus = "returned"

\* C29: the only button a run looks up and clicks is the one of its mode:
\* the draft button in draft mode, a publish button in publish mode; a run
\* that finds no button of its mode clicks nothing.
C29_ButtonOfMode ==
    /\ btnKind \in {"none", IF save_draft THEN "draft" ELSE "publish"}
    /\ clicks >= 1 => btnKind = (IF save_draft THEN "draft" ELSE "publish")
    /\ lastResolve.target \in {"draft", "publish"} =>
          /\ lastResolve.target = btnKind
          /\ lastResolve.touched = {} => (clicks = 0 /\ pc = "nobtn_shot")
    /\ "no_publish_btn" \in shots => clicks = 0

\* draft mode, no draft button on the page: the run ends without a click
C29_Witness ==
    /\ save_draft /\ btnKind = "draft"
    /\ "no_publish_btn" \in shots /\ clicks = 0
    /\ pc = "done" /\ runStatus = "returned"

StagingSteps == {"start", "cookie_wait", "video_attempt", "video_prompt", "video_done",
                 "cover_start", "img_start", "gather", "img_filtered", "pw_entry"}

AfterClickSteps == {"post_shot", "hold", "return_ok", "pw_except", "pw_finally", "done"}

\* C30: one run enters the publish engine at most once, launches at most
\* one browser and clicks at most once: once the engine was entered the run
\* never stages media again (a video-mode call is never followed by an
\* image batch), and once the button was clicked the run is past the
\* submission for good.
C30_OneEngineOneClick ==
    /\ pwCalls <= 1 /\ launchCount <= 1 /\ clicks <= 1
    /\ pwCalls >= 1 => pc \notin StagingSteps
    /\ (pwCalls >= 1 /\ video_path # NoneStr) =>
          (image_paths = <<>> /\ local_image_paths = <<>> /\ gatherFor = "cover")
    /\ clicks >= 1 => pc \in AfterClickSteps

\* a video-mode publish raised after its click: the run is over, raised,
\* with the list of images untouched
C30_Witness ==
    /\ video_path = video_file /\ image_urls # <<>>
    /\ pwCalls = 1 /\ clicks = 1 /\ exc # "none"
    /\ pc = "done" /\ runStatus = "raised"
    /\ image_paths = <<>>

\* C31: every screenshot is attempted while the browser is open: no step
\* that attempts a capture is taken after browser.close() has been called.
C31_ShotsBeforeClose ==
    [][shots' # shots => (browser = "open" /\ closeCount = 0)]_vars

\* C32: the session file is rewritten only by a run whose interactive login
\* succeeds: a run that logs in with the saved session, and a run whose
\* login fails or raises, leave the file as they found it.
C32_SessionFileFrame ==
    /\ (loginResult = "true" /\ navLogin = 0) => cookie_file = cookieAtStart
    /\ cookie_file # cookieAtStart => (loginResult = "true" /\ cookie_file = "fresh")

NoInputErrors == {"RuntimeError: no file input", "TimeoutError: no file input"}

\* C33: an upload step that meets a page without file input raises, in
\* image mode and in video mode; the run that carries this exception has
\* uploaded nothing, filled neither title nor body and looked up no button;
\* it attempts the error screenshot, closes the browser and ends raised.
C33_NoFileInputFatal ==
    /\ [][(lastResolve'.target = "upload" /\ lastResolve'.inputs = 0) =>
            (pc' = "pw_except" /\ exc' \in NoInputErrors /\ uploaded' = <<>>)]_vars
    /\ [](exc \in NoInputErrors =>
            /\ uploaded = <<>> /\ coverUploaded = <<>>
            /\ ~titleField.set /\ ~bodyFilled
            /\ btnKind = "none" /\ clicks = 0
            /\ pc \in {"pw_except", "pw_finally", "done"}
            /\ pc # "pw_except" => "error" \in shots
            /\ pc = "done" => (browser = "closed" /\ closeCount = 1 /\ runStatus = "raised"))

\* a video run on a composer without file input has ended
C33_Witness ==
    /\ video_path = video_file /\ exc = "TimeoutError: no file input"
    /\ pc = "done" /\ runStatus = "raised"
    /\ "error" \in shots /\ browser = "closed"
    /\ clicks = 0

====
